---- MODULE Spec2Model ----
(***************************************************************************)
(* Model of the analysis store of src/src/store/store.js (a zustand store  *)
(* wrapped in the persist middleware).                                     *)
(*                                                                         *)
(* JavaScript objects are functions from the names of the fields they      *)
(* carry to the values of those fields; a field the object does not carry  *)
(* (undefined) is a name outside the function's DOMAIN.  Object spread is  *)
(* the right-biased merge of two such functions.                           *)
(*                                                                         *)
(* Numbers are IEEE-754 doubles.  The confidences of this model are        *)
(* integer-valued doubles: a sum of such numbers is exact in any order of  *)
(* the addends, and the quotient sum / count is the double nearest to the  *)
(* rational sum / count, written here as that rational in lowest terms     *)
(* (two of these rationals are equal exactly when their doubles are);      *)
(* 0 / 0, which JavaScript evaluates to NaN, is the fraction with          *)
(* denominator 0.  Fractional confidences, whose sums are rounded and      *)
(* depend on the order reduce() adds them in, are outside the model.       *)
(*                                                                         *)
(* The values held under the keys of statistics.analysisTypes and of the   *)
(* summary of getViolationSummary are not all numbers: a key that names a  *)
(* member of Object.prototype reads as that member when the object does    *)
(* not carry it, a member + 1 is a string, and a string or a member - 1 is *)
(* NaN.  These values are written by their kind: Number(n), Member(name),  *)
(* Text(name, ones) and NaN.                                               *)
(***************************************************************************)
EXTENDS Integers, Sequences, FiniteSets, TLC

(* Bound: the number of addAnalysis calls. *)
MaxAdds == 3

(* Bound: the number of addAnalysis calls in the specifications that crowd *)
(* many other inputs around them.                                          *)
FewAdds == 2

(***************************************************************************)
(* Input domains                                                           *)
(***************************************************************************)
(* a type that names a member of Object.prototype, and the empty string,   *)
(* which is falsy, among them                                              *)
Types == {"text", "constructor", ""}
Confidences == {0, 1}
Violation == [type |-> "spam"]
ViolationLists == {<<Violation>>}
(* ids a caller can put in a payload or in an update *)
CallerIds == {-1}
(* Math.random().toString(36).substr(2, 9): the suffix of a generated id.  *)
(* Nothing keeps two draws apart; there are suffixes enough for the draws  *)
(* of all the calls to differ.                                             *)
Suffixes == 0..(MaxAdds - 1)

(* `analysis_${now}_${suffix}`: one id for each millisecond and suffix *)
GeneratedId(now, suffix) == now * Cardinality(Suffixes) + suffix

(* an id no record has: below every generated id *)
UnknownId == 0

(* the ids a caller passes to removeAnalysis, updateAnalysis and           *)
(* getAnalysisById: the ids of the records of the history, its own ids and *)
(* an id that no record has                                                *)
HistoryIds(history) == {history[i].id : i \in 1..Len(history)}
AllIds(history) == CallerIds \cup {UnknownId} \cup HistoryIds(history)

Empty == [k \in {} |-> 0]
Null == Empty

(* {...a, ...b} *)
Spread(a, b) ==
  [k \in (DOMAIN a) \cup (DOMAIN b) |-> IF k \in DOMAIN b THEN b[k] ELSE a[k]]

Has(o, k) == k \in DOMAIN o

IdPart == {Empty} \cup {[id |-> i] : i \in CallerIds}
TypePart == {Empty} \cup {[type |-> t] : t \in Types}
ConfidencePart == {Empty} \cup {[confidence |-> c] : c \in Confidences}
ViolationsPart == {Empty} \cup {[violations |-> v] : v \in ViolationLists}

(* the objects passed to addAnalysis: at most one field *)
Payloads == IdPart \cup TypePart \cup ConfidencePart \cup ViolationsPart

(* the objects passed to updateAnalysis: at most one field *)
Updates ==
  IdPart \cup {[type |-> "text"], [confidence |-> 2]} \cup ViolationsPart

(***************************************************************************)
(* Numbers: the quotient a / b of two integers, a >= 0, b >= 0             *)
(***************************************************************************)
RECURSIVE GCD(_, _)
GCD(a, b) == IF b = 0 THEN a ELSE GCD(b, a % b)

NaN == [n |-> 0, d |-> 0]
Zero == [n |-> 0, d |-> 1]

Quotient(a, b) ==
  IF b = 0 THEN NaN
  ELSE LET g == GCD(a, b) IN [n |-> a \div g, d |-> b \div g]

(* s.reduce((a, b) => a + b, initial): the additions from left to right *)
RECURSIVE Reduce(_, _)
Reduce(s, initial) ==
  IF s = <<>> THEN initial ELSE Reduce(Tail(s), initial + Head(s))

Sum(s) == Reduce(s, 0)

(***************************************************************************)
(* Helpers of the actions                                                  *)
(***************************************************************************)
(* analysis.violations?.length || 0 *)
ViolationsLength(a) == IF Has(a, "violations") THEN Len(a.violations) ELSE 0

(* a.confidence || 0 *)
ConfidenceOrZero(a) == IF Has(a, "confidence") THEN a.confidence ELSE 0

(* history.map((a) => a.confidence || 0) *)
MapConfidence(history) == [i \in 1..Len(history) |-> ConfidenceOrZero(history[i])]

(* .filter((c) => c > 0) *)
FilterPositive(cs) == SelectSeq(cs, LAMBDA c : c > 0)

(* allConfidences.reduce((a, b) => a + b, 0) / allConfidences.length *)
Average(allConfidences) == Quotient(Sum(allConfidences), Len(allConfidences))

(* allConfidences.length > 0 ? average : 0 *)
AverageOrZero(allConfidences) ==
  IF Len(allConfidences) > 0 THEN Average(allConfidences) ELSE Zero

(* the keys every plain object inherits: the names of the members of       *)
(* Object.prototype (Object.getOwnPropertyNames(Object.prototype))         *)
ObjectPrototype ==
  {"constructor", "toString", "toLocaleString", "valueOf", "hasOwnProperty",
   "isPrototypeOf", "propertyIsEnumerable", "__defineGetter__",
   "__defineSetter__", "__lookupGetter__", "__lookupSetter__", "__proto__"}

(* the values a key of a plain object of counts reads as *)
Undefined == [undefined |-> TRUE]
(* what JSON.parse makes of the null that stands for a number *)
NullNumber == [null |-> TRUE]
Number(n) == [number |-> n]
(* Object.prototype[name] *)
Member(name) == [member |-> name]
(* String(Object.prototype[name]) followed by ones times the digit 1 *)
Text(name, ones) == [text |-> name, ones |-> ones]

IsNumber(x) == DOMAIN x = {"number"}

(* object[key]: the object's own value, else the inherited member *)
Get(object, key) ==
  IF key \in DOMAIN object THEN object[key]
  ELSE IF key \in ObjectPrototype THEN Member(key)
  ELSE Undefined

(* the condition if (x): undefined, null, 0 and NaN are falsy; a member of *)
(* Object.prototype and a string that is not empty are truthy              *)
Truthy(x) ==
  IF IsNumber(x) THEN x.number # 0
  ELSE x # Undefined /\ x # NullNumber /\ x # NaN

(* x || 0 *)
OrZero(x) == IF Truthy(x) THEN x ELSE Number(0)

(* x + 1: a number plus 1; a member or a string is concatenated with "1" *)
Plus1(x) ==
  IF IsNumber(x) THEN Number(x.number + 1)
  ELSE IF DOMAIN x = {"member"} THEN Text(x.member, 1)
  ELSE IF DOMAIN x = {"text", "ones"} THEN Text(x.text, x.ones + 1)
  ELSE NaN

(* x - 1: a number minus 1; a member or one of the strings above converts  *)
(* to NaN                                                                  *)
Minus1(x) == IF IsNumber(x) THEN Number(x.number - 1) ELSE NaN

(* object[key] = value: the setter of __proto__, which an object without   *)
(* that key of its own inherits, ignores a value that is not an object     *)
Assign(object, key, value) ==
  IF key = "__proto__" /\ key \notin DOMAIN object THEN object
  ELSE Spread(object, key :> value)

(* analysisTypes[type] || 0 *)
TypeCount(analysisTypes, t) == OrZero(Get(analysisTypes, t))

(* history.findIndex((a) => a.id === analysisId), 0 for -1 *)
FindIndex(history, analysisId) ==
  IF \E i \in 1..Len(history) : history[i].id = analysisId
  THEN CHOOSE i \in 1..Len(history) :
         /\ history[i].id = analysisId
         /\ \A j \in 1..(i - 1) : history[j].id # analysisId
  ELSE 0

(* selectedAnalysis?.id === analysisId *)
SelectedHasId(selected, analysisId) ==
  /\ selected # Null
  /\ Has(selected, "id")
  /\ selected.id = analysisId

(* Math.max(0, x) *)
Max0(x) == IF x > 0 THEN x ELSE 0

(* selectedAnalysis?.id === analysisId ? null : selectedAnalysis *)
SelectedAfterRemove_Kept(selected, analysisId) == selected

SelectedAfterRemove(selected, analysisId) ==
  IF SelectedHasId(selected, analysisId) THEN Null ELSE selected

(* selectedAnalysis?.id === analysisId ? updatedAnalysis : selectedAnalysis *)
SelectedAfterUpdate(selected, analysisId, updatedAnalysis) ==
  IF SelectedHasId(selected, analysisId) THEN updatedAnalysis ELSE selected

(***************************************************************************)
(* State                                                                   *)
(*                                                                         *)
(* clock is the millisecond the system clock was last read at.  Only      *)
(* addAnalysis reads the clock: Date.now() for the id (line 34), then      *)
(* new Date() for the timestamp (line 35).  A read finds the millisecond   *)
(* of the read before or a later one (Readings), so that two records can   *)
(* share a timestamp.  adds counts the addAnalysis calls, and ordinals[i]  *)
(* is the number of the call that inserted analysisHistory[i]; neither is  *)
(* part of the store.                                                      *)
(* lastOp records the call that produced the state (it is not part of the  *)
(* store): its arguments, what a getter returned, for addAnalysis the      *)
(* history and the statistics before the call, and for the three actions   *)
(* that build new statistics previousAnalysisTypes, what the analysisTypes *)
(* object of the statistics before the call holds after the call.          *)
(* addAnalysis (lines 42-56) and updateAnalysis (lines 134-140) never      *)
(* write to that object; removeAnalysis copies statistics one level deep   *)
(* (line 84), so lines 94-95 write to the object the old statistics and    *)
(* the new ones share.                                                     *)
(***************************************************************************)
VARIABLES analysisHistory, statistics, filters, selectedAnalysis,
          isLoading, error, clock, adds, ordinals, lastOp

storeVars == <<analysisHistory, statistics, filters, selectedAnalysis,
               isLoading, error>>
vars == <<analysisHistory, statistics, filters, selectedAnalysis,
          isLoading, error, clock, adds, ordinals, lastOp>>

(* the last millisecond of a session: with it no two records need share a *)
(* timestamp                                                               *)
LastMillisecond == MaxAdds

(* what a read of the clock can find after a read that found t: the same   *)
(* millisecond or a later one                                              *)
Readings(t) == {u \in {t, t + 1} : u <= LastMillisecond}

InitialStatistics ==
  [totalAnalyses |-> 0, violationsDetected |-> 0,
   averageConfidence |-> Zero, analysisTypes |-> Empty]

(* null in filters.dateFrom / dateTo: falsy, as the instant 0 is *)
NoDate == 0
(* null in error *)
NoError == "null"

InitialFilters ==
  [dateFrom |-> NoDate, dateTo |-> NoDate, violationType |-> "all",
   sortBy |-> "date", sortOrder |-> "desc"]

Init ==
  /\ analysisHistory = <<>>
  /\ statistics = InitialStatistics
  /\ filters = InitialFilters
  /\ selectedAnalysis = Null
  /\ isLoading = FALSE
  /\ error = NoError
  /\ clock = 1
  /\ adds = 0
  /\ ordinals = <<>>
  /\ lastOp = [op |-> "create"]

(***************************************************************************)
(* Actions for the analysis history                                        *)
(***************************************************************************)
(* now is what Date.now() returns (line 34), suffix what Math.random()     *)
(* gives (line 34), instant what new Date() reads (line 35)                *)
addAnalysis(analysis, now, suffix, instant) ==
  /\ adds < MaxAdds
  /\ now \in Readings(clock)
  /\ suffix \in Suffixes
  /\ instant \in Readings(now)
  /\ LET newAnalysis ==
           Spread([id |-> GeneratedId(now, suffix), timestamp |-> instant],
                  analysis)
         updatedHistory == <<newAnalysis>> \o analysisHistory
         counted ==
           [statistics EXCEPT
              !.totalAnalyses = statistics.totalAnalyses + 1,
              !.violationsDetected =
                 statistics.violationsDetected + ViolationsLength(analysis)]
         typed ==
           IF Has(analysis, "type") /\ analysis.type # ""
           THEN [counted EXCEPT
                   !.analysisTypes =
                      Spread(counted.analysisTypes,
                             analysis.type :>
                               Plus1(TypeCount(counted.analysisTypes, analysis.type)))]
           ELSE counted
         updatedStatistics ==
           IF Has(analysis, "confidence")
           THEN [typed EXCEPT
                   !.averageConfidence =
                      Average(FilterPositive(
                        MapConfidence(analysisHistory) \o <<analysis.confidence>>))]
           ELSE typed
     IN /\ analysisHistory' = updatedHistory
        /\ statistics' = updatedStatistics
        /\ clock' = instant
  /\ adds' = adds + 1
  /\ ordinals' = <<adds + 1>> \o ordinals
  /\ lastOp' = [op |-> "addAnalysis",
                before |-> [analysisHistory |-> analysisHistory,
                            statistics |-> statistics],
                previousAnalysisTypes |-> statistics.analysisTypes]
  /\ UNCHANGED <<filters, selectedAnalysis, isLoading, error>>

(* ordinals after history.filter((a) => a.id !== analysisId): those of the *)
(* records that stay                                                       *)
KeptOrdinals(history, ords, analysisId) ==
  LET kept == SelectSeq([i \in 1..Len(history) |-> i],
                        LAMBDA i : history[i].id # analysisId)
  IN [k \in 1..Len(kept) |-> ords[kept[k]]]

(* history.filter((a) => a.id !== analysisId) *)
Without_Reversed(history, analysisId) ==
  LET kept == SelectSeq(history, LAMBDA a : a.id # analysisId)
  IN [i \in 1..Len(kept) |-> kept[Len(kept) + 1 - i]]

Without(history, analysisId) == SelectSeq(history, LAMBDA a : a.id # analysisId)

(* removeAnalysis when a record with the id was found *)
removeFound(analysisId, index) ==
  LET analysis == analysisHistory[index]
      updatedHistory == Without(analysisHistory, analysisId)
      counted ==
        [statistics EXCEPT
           !.totalAnalyses = Max0(statistics.totalAnalyses - 1),
           !.violationsDetected =
              Max0(statistics.violationsDetected - ViolationsLength(analysis))]
      typed ==
        IF /\ Has(analysis, "type") /\ analysis.type # ""
           /\ Truthy(Get(counted.analysisTypes, analysis.type))
        THEN [counted EXCEPT
                !.analysisTypes =
                   Assign(counted.analysisTypes, analysis.type,
                          Minus1(Get(counted.analysisTypes, analysis.type)))]
        ELSE counted
      updatedStatistics ==
        [typed EXCEPT
           !.averageConfidence =
              IF Len(updatedHistory) > 0
              THEN AverageOrZero(FilterPositive(MapConfidence(updatedHistory)))
              ELSE Zero]
  IN /\ analysisHistory' = updatedHistory
     /\ statistics' = updatedStatistics
     /\ selectedAnalysis' = SelectedAfterRemove(selectedAnalysis, analysisId)
     /\ lastOp' = [op |-> "removeAnalysis", id |-> analysisId, found |-> TRUE,
                   previousAnalysisTypes |-> typed.analysisTypes]
     /\ ordinals' = KeptOrdinals(analysisHistory, ordinals, analysisId)
     /\ UNCHANGED <<filters, isLoading, error, clock, adds>>

(* removeAnalysis without the early return of line 77 *)
removeAnalysis_NoEarlyReturn(analysisId) ==
  LET index == FindIndex(analysisHistory, analysisId) IN
  IF index = 0
  THEN /\ statistics' =
            [statistics EXCEPT !.totalAnalyses = Max0(statistics.totalAnalyses - 1)]
       /\ lastOp' = [op |-> "removeAnalysis", id |-> analysisId, found |-> FALSE]
       /\ UNCHANGED <<analysisHistory, ordinals, filters, selectedAnalysis, isLoading,
                      error, clock, adds>>
  ELSE removeFound(analysisId, index)

removeAnalysis(analysisId) ==
  LET index == FindIndex(analysisHistory, analysisId) IN
  IF index = 0
  THEN /\ lastOp' = [op |-> "removeAnalysis", id |-> analysisId, found |-> FALSE]
       /\ UNCHANGED <<storeVars, ordinals, clock, adds>>
  ELSE removeFound(analysisId, index)

(* updateAnalysis counting the violations of the updates, as addAnalysis   *)
(* counts those of a payload                                               *)
updateAnalysis_CountsViolations(analysisId, updates) ==
  LET analysisIndex == FindIndex(analysisHistory, analysisId) IN
  IF analysisIndex = 0
  THEN /\ lastOp' = [op |-> "updateAnalysis", id |-> analysisId, found |-> FALSE]
       /\ UNCHANGED <<storeVars, ordinals, clock, adds>>
  ELSE
    LET oldAnalysis == analysisHistory[analysisIndex]
        updatedAnalysis == Spread(oldAnalysis, updates)
        newHistory == [analysisHistory EXCEPT ![analysisIndex] = updatedAnalysis]
        counted ==
          [statistics EXCEPT
             !.violationsDetected =
                statistics.violationsDetected + ViolationsLength(updates)]
        updatedStatistics ==
          IF Has(updates, "confidence")
             /\ (~Has(oldAnalysis, "confidence")
                 \/ oldAnalysis.confidence # updates.confidence)
          THEN [counted EXCEPT
                  !.averageConfidence =
                     AverageOrZero(FilterPositive(MapConfidence(newHistory)))]
          ELSE counted
    IN /\ analysisHistory' = newHistory
       /\ statistics' = updatedStatistics
       /\ selectedAnalysis' =
            SelectedAfterUpdate(selectedAnalysis, analysisId, updatedAnalysis)
       /\ lastOp' = [op |-> "updateAnalysis", id |-> analysisId, found |-> TRUE,
                     previousAnalysisTypes |-> statistics.analysisTypes]
       /\ UNCHANGED <<filters, isLoading, error, clock, adds, ordinals>>

updateAnalysis(analysisId, updates) ==
  LET analysisIndex == FindIndex(analysisHistory, analysisId) IN
  IF analysisIndex = 0
  THEN /\ lastOp' = [op |-> "updateAnalysis", id |-> analysisId, found |-> FALSE]
       /\ UNCHANGED <<storeVars, ordinals, clock, adds>>
  ELSE
    LET oldAnalysis == analysisHistory[analysisIndex]
        updatedAnalysis == Spread(oldAnalysis, updates)
        newHistory == [analysisHistory EXCEPT ![analysisIndex] = updatedAnalysis]
        updatedStatistics ==
          IF Has(updates, "confidence")
             /\ (~Has(oldAnalysis, "confidence")
                 \/ oldAnalysis.confidence # updates.confidence)
          THEN [statistics EXCEPT
                  !.averageConfidence =
                     AverageOrZero(FilterPositive(MapConfidence(newHistory)))]
          ELSE statistics
    IN /\ analysisHistory' = newHistory
       /\ statistics' = updatedStatistics
       /\ selectedAnalysis' =
            SelectedAfterUpdate(selectedAnalysis, analysisId, updatedAnalysis)
       /\ lastOp' = [op |-> "updateAnalysis", id |-> analysisId, found |-> TRUE,
                     previousAnalysisTypes |-> statistics.analysisTypes]
       /\ UNCHANGED <<filters, isLoading, error, clock, adds, ordinals>>

(* clearHistory without selectedAnalysis: null *)
clearHistory_KeepsSelection ==
  /\ analysisHistory' = <<>>
  /\ statistics' = InitialStatistics
  /\ ordinals' = <<>>
  /\ lastOp' = [op |-> "clearHistory"]
  /\ UNCHANGED <<filters, selectedAnalysis, isLoading, error, clock, adds>>

clearHistory ==
  /\ analysisHistory' = <<>>
  /\ statistics' = InitialStatistics
  /\ selectedAnalysis' = Null
  /\ ordinals' = <<>>
  /\ lastOp' = [op |-> "clearHistory"]
  /\ UNCHANGED <<filters, isLoading, error, clock, adds>>

(***************************************************************************)
(* Actions for filtering and sorting                                       *)
(***************************************************************************)
(* setFilters without the spread of state.filters *)
setFilters_Replaces(newFilters) ==
  /\ filters' = newFilters
  /\ lastOp' = [op |-> "setFilters", newFilters |-> newFilters]
  /\ UNCHANGED <<analysisHistory, ordinals, statistics, selectedAnalysis, isLoading,
                 error, clock, adds>>

setFilters(newFilters) ==
  /\ filters' = Spread(filters, newFilters)
  /\ lastOp' = [op |-> "setFilters", newFilters |-> newFilters]
  /\ UNCHANGED <<analysisHistory, ordinals, statistics, selectedAnalysis, isLoading,
                 error, clock, adds>>

resetFilters ==
  /\ filters' = InitialFilters
  /\ lastOp' = [op |-> "resetFilters"]
  /\ UNCHANGED <<analysisHistory, ordinals, statistics, selectedAnalysis, isLoading,
                 error, clock, adds>>

(***************************************************************************)
(* Actions for selection                                                   *)
(***************************************************************************)
setSelectedAnalysis(analysis) ==
  /\ selectedAnalysis' = analysis
  /\ lastOp' = [op |-> "setSelectedAnalysis"]
  /\ UNCHANGED <<analysisHistory, ordinals, statistics, filters, isLoading, error, clock, adds>>

clearSelectedAnalysis ==
  /\ selectedAnalysis' = Null
  /\ lastOp' = [op |-> "clearSelectedAnalysis"]
  /\ UNCHANGED <<analysisHistory, ordinals, statistics, filters, isLoading, error, clock, adds>>

(***************************************************************************)
(* Actions for the UI state                                                *)
(***************************************************************************)
setLoading(loading) ==
  /\ isLoading' = loading
  /\ lastOp' = [op |-> "setLoading"]
  /\ UNCHANGED <<analysisHistory, ordinals, statistics, filters, selectedAnalysis,
                 error, clock, adds>>

setError(e) ==
  /\ error' = e
  /\ lastOp' = [op |-> "setError"]
  /\ UNCHANGED <<analysisHistory, ordinals, statistics, filters, selectedAnalysis,
                 isLoading, clock, adds>>

clearError ==
  /\ error' = NoError
  /\ lastOp' = [op |-> "clearError"]
  /\ UNCHANGED <<analysisHistory, ordinals, statistics, filters, selectedAnalysis,
                 isLoading, clock, adds>>

(***************************************************************************)
(* Getters                                                                 *)
(*                                                                         *)
(* A getter leaves the store alone; lastOp keeps what it returned.         *)
(*                                                                         *)
(* A timestamp is the ISO string toISOString() made of an instant, written *)
(* as that instant (an integer >= 1); Unparseable is a timestamp that      *)
(* new Date() cannot parse, whose getTime() is NaN.                        *)
(***************************************************************************)
Unparseable == -1

(* !isNaN(new Date(timestamp).getTime()) *)
IsValidDate(timestamp) == timestamp # Unparseable

(* new Date(a) > new Date(b): the bound left out *)
DateGE_Exclusive(a, b) == IsValidDate(a) /\ IsValidDate(b) /\ a > b

(* new Date(a) >= new Date(b): false when one of them is invalid *)
DateGE(a, b) == IsValidDate(a) /\ IsValidDate(b) /\ a >= b

(* new Date(a) <= new Date(b): false when one of them is invalid *)
DateLE(a, b) == IsValidDate(a) /\ IsValidDate(b) /\ a <= b

(* a.violations?.some((v) => v.type === violationType) *)
HasViolationOfType(a, violationType) ==
  /\ Has(a, "violations")
  /\ \E i \in 1..Len(a.violations) : a.violations[i].type = violationType

(* lines 209-228: the records that pass the filters, in history order *)
ApplyFilters(history, f) ==
  LET fromDate == IF f.dateFrom # NoDate
                  THEN SelectSeq(history,
                                 LAMBDA a : DateGE(a.timestamp, f.dateFrom))
                  ELSE history
      toDate == IF f.dateTo # NoDate
                THEN SelectSeq(fromDate,
                               LAMBDA a : DateLE(a.timestamp, f.dateTo))
                ELSE fromDate
  IN IF f.violationType # "all"
     THEN SelectSeq(toDate, LAMBDA a : HasViolationOfType(a, f.violationType))
     ELSE toDate

(* a.status || '' *)
StatusOrEmpty(a) == IF Has(a, "status") THEN a.status ELSE ""

(* the order localeCompare puts the status strings in *)
StatusRank(status) ==
  CASE status = "" -> 0
    [] status = "fail" -> 1
    [] status = "pass" -> 2

Sign(x) == IF x < 0 THEN -1 ELSE IF x > 0 THEN 1 ELSE 0

(* x.localeCompare(y) *)
LocaleCompare(x, y) == Sign(StatusRank(x) - StatusRank(y))

(* lines 232-246: the comparator of the sort; a difference with a NaN in   *)
(* it is NaN, which sort() takes for 0                                     *)
Comparison(a, b, f) ==
  LET comparison ==
        CASE f.sortBy = "confidence" -> ConfidenceOrZero(a) - ConfidenceOrZero(b)
          [] f.sortBy = "status" ->
               LocaleCompare(StatusOrEmpty(a), StatusOrEmpty(b))
          [] OTHER ->
               IF IsValidDate(a.timestamp) /\ IsValidDate(b.timestamp)
               THEN a.timestamp - b.timestamp
               ELSE 0
  IN IF f.sortOrder = "asc" THEN comparison ELSE 0 - comparison

(* the comparator is a consistent one unless it compares timestamps and    *)
(* one of them is unparseable                                              *)
ConsistentComparison(s, f) ==
  \/ f.sortBy \in {"confidence", "status"}
  \/ \A i \in 1..Len(s) : IsValidDate(s[i].timestamp)

(* x put into the sorted s, behind the elements that do not come after it *)
InsertSorted(s, x, f) ==
  LET k == Cardinality({i \in 1..Len(s) : Comparison(s[i], x, f) <= 0})
  IN SubSeq(s, 1, k) \o <<x>> \o SubSeq(s, k + 1, Len(s))

(* Array.prototype.sort with a consistent comparator: the stable sort *)
RECURSIVE StableSort(_, _, _)
StableSort(sorted, rest, f) ==
  IF rest = <<>> THEN sorted
  ELSE StableSort(InsertSorted(sorted, Head(rest), f), Tail(rest), f)

Orderings(s) ==
  {[i \in 1..Len(s) |-> s[p[i]]] :
     p \in {q \in [1..Len(s) -> 1..Len(s)] :
              \A i, j \in 1..Len(s) : i # j => q[i] # q[j]}}

(* what filtered.sort(comparator) can leave in filtered: the stable sort,  *)
(* or an order the implementation chooses when the comparator is not       *)
(* consistent                                                              *)
SortResults(s, f) ==
  IF ConsistentComparison(s, f) THEN {StableSort(<<>>, s, f)}
  ELSE Orderings(s)

(* getFilteredHistory sorting the history itself, not a copy of it *)
getFilteredHistory_SortsInPlace ==
  /\ \E result \in SortResults(ApplyFilters(analysisHistory, filters), filters) :
       /\ lastOp' = [op |-> "getFilteredHistory", result |-> result]
       /\ analysisHistory' = result
       /\ ordinals' =
            [i \in 1..Len(result) |->
               ordinals[CHOOSE j \in 1..Len(analysisHistory) :
                          analysisHistory[j] = result[i]]]
  /\ UNCHANGED <<statistics, filters, selectedAnalysis, isLoading, error, clock, adds>>

getFilteredHistory ==
  /\ \E result \in SortResults(ApplyFilters(analysisHistory, filters), filters) :
       lastOp' = [op |-> "getFilteredHistory", result |-> result]
  /\ UNCHANGED <<storeVars, ordinals, clock, adds>>

getStatistics ==
  /\ lastOp' = [op |-> "getStatistics", result |-> statistics]
  /\ UNCHANGED <<storeVars, ordinals, clock, adds>>

(* history.find((a) => a.id === id); Null for undefined *)
Find(history, id) ==
  IF FindIndex(history, id) = 0 THEN Null ELSE history[FindIndex(history, id)]

getAnalysisById(id) ==
  /\ lastOp' = [op |-> "getAnalysisById", id |-> id,
                result |-> Find(analysisHistory, id)]
  /\ UNCHANGED <<storeVars, ordinals, clock, adds>>

getAnalysisByType(type) ==
  /\ lastOp' = [op |-> "getAnalysisByType", type |-> type,
                result |-> SelectSeq(analysisHistory,
                                     LAMBDA a : Has(a, "type") /\ a.type = type)]
  /\ UNCHANGED <<storeVars, ordinals, clock, adds>>

(* the default of limit *)
DefaultLimit == 10

(* s.slice(0, end) *)
Slice(s, end) ==
  LET to == IF end < 0 THEN Max0(Len(s) + end)
            ELSE IF end > Len(s) THEN Len(s) ELSE end
  IN SubSeq(s, 1, to)

getRecentAnalyses(limit) ==
  /\ lastOp' = [op |-> "getRecentAnalyses", limit |-> limit,
                result |-> Slice(analysisHistory, limit)]
  /\ UNCHANGED <<storeVars, ordinals, clock, adds>>

(* analysis.violations?.forEach((violation) => {                            *)
(*   summary[violation.type] = (summary[violation.type] || 0) + 1 })       *)
RECURSIVE SummaryOfViolations(_, _)
SummaryOfViolations(summary, violations) ==
  IF violations = <<>> THEN summary
  ELSE LET type == Head(violations).type
       IN SummaryOfViolations(
            Assign(summary, type, Plus1(OrZero(Get(summary, type)))),
            Tail(violations))

(* history.forEach((analysis) => ...) on the summary so far *)
RECURSIVE SummaryOfHistory(_, _)
SummaryOfHistory(summary, history) ==
  IF history = <<>> THEN summary
  ELSE SummaryOfHistory(
         IF Has(Head(history), "violations")
         THEN SummaryOfViolations(summary, Head(history).violations)
         ELSE summary,
         Tail(history))

(* const summary = {}; ...; return summary *)
ViolationSummary(history) == SummaryOfHistory(Empty, history)

getViolationSummary ==
  /\ lastOp' = [op |-> "getViolationSummary",
                result |-> ViolationSummary(analysisHistory)]
  /\ UNCHANGED <<storeVars, ordinals, clock, adds>>

(***************************************************************************)
(* Persistence                                                             *)
(*                                                                         *)
(* persist() is given a name and a version and no storage, partialize or   *)
(* merge: after every set() it writes JSON.stringify({state, version})     *)
(* under the name, the state without its functions; a new session reads    *)
(* the item once, parses it and, the version being the one of the options, *)
(* spreads the parsed state over the initial state.  The item is therefore *)
(* always the snapshot of the current state.                               *)
(***************************************************************************)
Version == 1

(* JSON.parse(JSON.stringify(x)) of a number: NaN is written as null *)
JsonNumber(x) == IF x = NaN THEN NullNumber ELSE x

(* JSON.parse(JSON.stringify(statistics)) *)
JsonStatistics(s) ==
  [totalAnalyses |-> s.totalAnalyses,
   violationsDetected |-> s.violationsDetected,
   averageConfidence |-> JsonNumber(s.averageConfidence),
   analysisTypes |->
     [t \in DOMAIN s.analysisTypes |-> JsonNumber(s.analysisTypes[t])]]

(* the item in the storage: the state (its records, strings, integers,     *)
(* booleans and nulls come back from JSON as they went in) and the version *)
Snapshot ==
  [state |-> [analysisHistory |-> analysisHistory,
              statistics |-> JsonStatistics(statistics),
              filters |-> filters,
              selectedAnalysis |-> selectedAnalysis,
              isLoading |-> isLoading,
              error |-> error],
   version |-> Version]

(* the state of a new session: {...initialState, ...snapshot.state} when   *)
(* the versions agree, the initial state otherwise                         *)
Rehydrated(snapshot) ==
  LET initialState ==
        [analysisHistory |-> <<>>, statistics |-> InitialStatistics,
         filters |-> InitialFilters, selectedAnalysis |-> Null,
         isLoading |-> FALSE, error |-> NoError]
  IN IF snapshot.version = Version
     THEN Spread(initialState, snapshot.state)
     ELSE initialState

(* the page is loaded again: the store is created and rehydrated *)
rehydrate ==
  /\ LET state == Rehydrated(Snapshot)
     IN /\ analysisHistory' = state.analysisHistory
        /\ statistics' = state.statistics
        /\ filters' = state.filters
        /\ selectedAnalysis' = state.selectedAnalysis
        /\ isLoading' = state.isLoading
        /\ error' = state.error
  /\ lastOp' = [op |-> "rehydrate"]
  /\ UNCHANGED <<clock, adds, ordinals>>

(***************************************************************************)
(* Specifications                                                          *)
(***************************************************************************)
(* What the clock and Math.random() give to a call of addAnalysis, as      *)
(* <<now, suffix, instant>>: any reads and any draw; any reads and a draw  *)
(* that no call before had.                                                *)
AnyCall ==
  {call \in (1..LastMillisecond) \X Suffixes \X (1..LastMillisecond) :
     /\ call[1] \in Readings(clock)
     /\ call[3] \in Readings(call[1])}
NewDraw == {call \in AnyCall : call[2] = adds}

(* the callers of setSelectedAnalysis pass null or a record of the history *)
Selectable == {Null} \cup {analysisHistory[i] : i \in 1..Len(analysisHistory)}

(* The history and the statistics, under every payload and every update. *)
Next ==
  \/ /\ adds < FewAdds
     /\ \E analysis \in Payloads, call \in NewDraw :
          addAnalysis(analysis, call[1], call[2], call[3])
  \/ \E analysisId \in AllIds(analysisHistory) : removeAnalysis(analysisId)
  \/ \E analysisId \in AllIds(analysisHistory), updates \in Updates :
       updateAnalysis(analysisId, updates)
  \/ clearHistory

Spec == Init /\ [][Next]_vars

(* The whole state, with the filters and the UI flags: payloads that carry *)
(* an id and a confidence, updates that carry a confidence.                *)
FramePayloads == {Empty, [id |-> -1, confidence |-> 1]}
FrameUpdates == {[confidence |-> 2]}
FilterUpdates ==
  {[sortBy |-> "confidence", sortOrder |-> "asc"], [violationType |-> "spam"]}
Errors == {NoError, "Analysis failed"}

NextFrame ==
  \/ /\ adds < FewAdds
     /\ \E analysis \in FramePayloads, call \in NewDraw :
          addAnalysis(analysis, call[1], call[2], call[3])
  \/ \E analysisId \in AllIds(analysisHistory) : removeAnalysis(analysisId)
  \/ \E analysisId \in AllIds(analysisHistory), updates \in FrameUpdates :
       updateAnalysis(analysisId, updates)
  \/ clearHistory
  \/ \E newFilters \in FilterUpdates : setFilters(newFilters)
  \/ resetFilters
  \/ \E analysis \in Selectable : setSelectedAnalysis(analysis)
  \/ clearSelectedAnalysis
  \/ \E loading \in BOOLEAN : setLoading(loading)
  \/ \E e \in Errors : setError(e)
  \/ clearError

SpecFrame == Init /\ [][NextFrame]_vars

(* The updates: updates that change a confidence, a type or the            *)
(* violations of a record.                                                 *)
UpdatePayloads == {Empty, [confidence |-> 1, type |-> "text"]}
UpdateUpdates ==
  {Empty, [confidence |-> 1], [confidence |-> 2],
   [type |-> "image", violations |-> <<Violation>>]}

NextUpdate ==
  \/ /\ adds < FewAdds
     /\ \E analysis \in UpdatePayloads, call \in NewDraw :
          addAnalysis(analysis, call[1], call[2], call[3])
  \/ \E analysisId \in AllIds(analysisHistory) : removeAnalysis(analysisId)
  \/ \E analysisId \in AllIds(analysisHistory), updates \in UpdateUpdates :
       updateAnalysis(analysisId, updates)
  \/ clearHistory

SpecUpdate == Init /\ [][NextUpdate]_vars

(* The queries: payloads with a confidence, a status, a type and           *)
(* violations, and filters that choose the sort.                           *)
InheritedViolations ==
  <<Violation, [type |-> "constructor"], [type |-> "__proto__"]>>
QueryPayloads ==
  {[confidence |-> 90, status |-> "pass"],
   [confidence |-> 40, status |-> "fail", type |-> "constructor",
    violations |-> InheritedViolations]}
QueryUpdates == {[confidence |-> 90]}
SortFilterUpdates ==
  {[sortBy |-> s] : s \in {"date", "confidence", "status", "relevance"}}
    \cup {[sortOrder |-> o] : o \in {"asc", "desc"}}
Limits == {0, 1, DefaultLimit}

NextQuery ==
  \/ /\ adds < FewAdds
     /\ \E analysis \in QueryPayloads, call \in NewDraw :
          addAnalysis(analysis, call[1], call[2], call[3])
  \/ \E analysisId \in AllIds(analysisHistory) : removeAnalysis(analysisId)
  \/ \E analysisId \in AllIds(analysisHistory), updates \in QueryUpdates :
       updateAnalysis(analysisId, updates)
  \/ \E newFilters \in SortFilterUpdates : setFilters(newFilters)
  \/ getFilteredHistory
  \/ getStatistics
  \/ \E id \in AllIds(analysisHistory) : getAnalysisById(id)
  \/ \E type \in Types : getAnalysisByType(type)
  \/ \E limit \in Limits : getRecentAnalyses(limit)
  \/ getViolationSummary

SpecQuery == Init /\ [][NextQuery]_vars

(* The sort: three records, payloads of the scenario of the sort and       *)
(* payloads that carry a timestamp of their own, one that cannot be parsed *)
(* among them, and filters that choose the sort.                           *)
OrderPayloads ==
  {[confidence |-> 90, status |-> "pass"],
   [confidence |-> 40, status |-> "fail"],
   [timestamp |-> 1],
   [timestamp |-> Unparseable]}

NextOrder ==
  \/ \E analysis \in OrderPayloads, call \in NewDraw :
       addAnalysis(analysis, call[1], call[2], call[3])
  \/ \E analysisId \in AllIds(analysisHistory) : removeAnalysis(analysisId)
  \/ \E newFilters \in SortFilterUpdates : setFilters(newFilters)
  \/ getFilteredHistory

SpecOrder == Init /\ [][NextOrder]_vars

(* The order of insertion: three records and more, with a timestamp of the *)
(* clock or one of their own, removed, updated and read back.              *)
RecentPayloads == {Empty, [timestamp |-> Unparseable]}

NextRecent ==
  \/ \E analysis \in RecentPayloads, call \in NewDraw :
       addAnalysis(analysis, call[1], call[2], call[3])
  \/ \E analysisId \in AllIds(analysisHistory) : removeAnalysis(analysisId)
  \/ \E analysisId \in AllIds(analysisHistory), updates \in QueryUpdates :
       updateAnalysis(analysisId, updates)
  \/ \E limit \in Limits : getRecentAnalyses(limit)

SpecRecent == Init /\ [][NextRecent]_vars

(* The selection: any reads of the clock and any draws, so that two        *)
(* generated ids can be the same.                                          *)
SelectionPayloads == {Empty, [confidence |-> 1]}
SelectionUpdates == {[confidence |-> 2]}

NextSelection ==
  \/ /\ adds < FewAdds
     /\ \E analysis \in SelectionPayloads, call \in AnyCall :
          addAnalysis(analysis, call[1], call[2], call[3])
  \/ \E analysisId \in AllIds(analysisHistory) : removeAnalysis(analysisId)
  \/ \E analysisId \in AllIds(analysisHistory), updates \in SelectionUpdates :
       updateAnalysis(analysisId, updates)
  \/ clearHistory
  \/ \E analysis \in Selectable : setSelectedAnalysis(analysis)
  \/ clearSelectedAnalysis

SpecSelection == Init /\ [][NextSelection]_vars

(* The sessions: the whole state, and a store that is created again from   *)
(* its snapshot.                                                           *)
PersistPayloads == {Empty, [confidence |-> 0], [confidence |-> 1]}

NextPersist ==
  \/ /\ adds < FewAdds
     /\ \E analysis \in PersistPayloads, call \in NewDraw :
          addAnalysis(analysis, call[1], call[2], call[3])
  \/ \E analysisId \in AllIds(analysisHistory) : removeAnalysis(analysisId)
  \/ \E newFilters \in FilterUpdates : setFilters(newFilters)
  \/ \E analysis \in Selectable : setSelectedAnalysis(analysis)
  \/ \E loading \in BOOLEAN : setLoading(loading)
  \/ \E e \in Errors : setError(e)
  \/ rehydrate

SpecPersist == Init /\ [][NextPersist]_vars

(* The filters: payloads with violations of two types or with a timestamp  *)
(* of their own that cannot be parsed (an undefined one behaves the same), *)
(* and filters with date bounds and a violation type.                      *)
OtherViolation == [type |-> "hate"]
FilterPayloads ==
  {Empty,
   [violations |-> <<>>],
   [violations |-> <<Violation>>],
   [violations |-> <<OtherViolation>>],
   [violations |-> <<OtherViolation, Violation>>],
   [timestamp |-> Unparseable, violations |-> <<Violation>>]}
DateFilterUpdates ==
  {[dateFrom |-> 2], [dateTo |-> 1], [dateTo |-> 2], [violationType |-> "spam"]}

NextFilter ==
  \/ /\ adds < FewAdds
     /\ \E analysis \in FilterPayloads, call \in NewDraw :
          addAnalysis(analysis, call[1], call[2], call[3])
  \/ \E analysisId \in AllIds(analysisHistory) : removeAnalysis(analysisId)
  \/ \E newFilters \in DateFilterUpdates : setFilters(newFilters)
  \/ resetFilters
  \/ getFilteredHistory

SpecFilter == Init /\ [][NextFilter]_vars

(***************************************************************************)
(* What the specification says of the statistics, computed from the        *)
(* history                                                                 *)
(***************************************************************************)
Indices == 1..Len(analysisHistory)

(* sum(len(r.violations) for r in analysisHistory) *)
SumOfViolations ==
  Sum([i \in Indices |-> ViolationsLength(analysisHistory[i])])

(* the confidence values greater than 0 *)
PositiveConfidences ==
  SelectSeq([i \in Indices |-> ConfidenceOrZero(analysisHistory[i])],
            LAMBDA c : c > 0)

(* their mean, 0 when there is none *)
MeanOfPositiveConfidences ==
  IF PositiveConfidences = <<>> THEN Zero
  ELSE Quotient(Sum(PositiveConfidences), Len(PositiveConfidences))

(* count(r in analysisHistory where r.type == t) *)
RecordsOfType(t) ==
  Cardinality({i \in Indices :
                 Has(analysisHistory[i], "type") /\ analysisHistory[i].type = t})

(* analysisTypes[t], an absent key counting 0 *)
CountOrZero(analysisTypes, t) ==
  IF t \in DOMAIN analysisTypes THEN analysisTypes[t] ELSE Number(0)

RemovedUnknown == lastOp.op = "removeAnalysis" /\ ~lastOp.found
RemovedFound == lastOp.op = "removeAnalysis" /\ lastOp.found
UpdatedUnknown == lastOp.op = "updateAnalysis" /\ ~lastOp.found
UpdatedFound == lastOp.op = "updateAnalysis" /\ lastOp.found

(***************************************************************************)
(* Claims                                                                  *)
(***************************************************************************)

(* C1: after every addAnalysis, removeAnalysis, updateAnalysis and         *)
(* clearHistory call, with any payloads, statistics.totalAnalyses equals   *)
(* the number of records in analysisHistory.                               *)
C1_TotalIsLength ==
  statistics.totalAnalyses = Len(analysisHistory)

(* C2: after every call statistics.violationsDetected equals the sum of    *)
(* the violations length over the records of analysisHistory, a record     *)
(* without violations counting 0, also after an update that replaces a     *)
(* record's violations.                                                    *)
C2_ViolationsIsSum ==
  statistics.violationsDetected = SumOfViolations

(* C3: in every reachable state statistics.averageConfidence is the mean   *)
(* of the confidences greater than 0 of the records of analysisHistory,    *)
(* and 0 when no record has one.                                           *)
C3_AverageIsMean ==
  statistics.averageConfidence = MeanOfPositiveConfidences

(* C4: in every reachable state, for every type t,                         *)
(* statistics.analysisTypes[t], an absent key counting 0, is the number of *)
(* records of analysisHistory whose type is t, also after an update that   *)
(* changes a record's type.                                                *)
C4_TypeCountsAreCounts ==
  \A t \in Types :
    CountOrZero(statistics.analysisTypes, t) = Number(RecordsOfType(t))

(* C5: removeAnalysis and updateAnalysis called with an id that no record  *)
(* of analysisHistory has leave analysisHistory, statistics, filters,      *)
(* selectedAnalysis, isLoading and error unchanged.                        *)
C5_UnknownIdChangesNothing ==
  [][(RemovedUnknown' \/ UpdatedUnknown') => UNCHANGED storeVars]_vars

C5_Witness ==
  /\ RemovedUnknown
  /\ analysisHistory # <<>>
  /\ statistics.totalAnalyses > 0
  /\ selectedAnalysis # Null
  /\ filters # InitialFilters
  /\ isLoading
  /\ error # NoError

(* C6: when setSelectedAnalysis is only called with null or a record of    *)
(* analysisHistory, a selectedAnalysis that is not null is equal to a      *)
(* record of analysisHistory (which then has its id); removing the         *)
(* selected record leaves selectedAnalysis null, and updating it leaves    *)
(* selectedAnalysis equal to the updated record.                           *)
SelectedIsInHistory ==
  selectedAnalysis # Null =>
    \E i \in Indices : analysisHistory[i] = selectedAnalysis

C6_SelectionFollowsHistory ==
  [][/\ SelectedIsInHistory'
     /\ (RemovedFound' /\ SelectedHasId(selectedAnalysis, lastOp'.id))
          => selectedAnalysis' = Null
     /\ (UpdatedFound' /\ SelectedHasId(selectedAnalysis, lastOp'.id))
          => selectedAnalysis' =
               analysisHistory'[FindIndex(analysisHistory, lastOp'.id)]
    ]_vars

C6_Witness ==
  /\ UpdatedFound
  /\ selectedAnalysis # Null
  /\ selectedAnalysis.id = lastOp.id
  /\ Has(selectedAnalysis, "confidence")
  /\ selectedAnalysis.confidence = 2
  /\ Len(analysisHistory) > 1

(* C7: in every reachable state, also after an update has changed the type *)
(* or the violations of a record that is removed afterwards,               *)
(* statistics.totalAnalyses, statistics.violationsDetected and every value *)
(* of statistics.analysisTypes are greater than or equal to 0.             *)
C7_CountersNotNegative ==
  /\ statistics.totalAnalyses >= 0
  /\ statistics.violationsDetected >= 0
  /\ \A t \in DOMAIN statistics.analysisTypes :
       /\ IsNumber(statistics.analysisTypes[t])
       /\ statistics.analysisTypes[t].number >= 0

(* C8: no action divides by a count of zero confidences: the stored        *)
(* averageConfidence is never the not-a-number value 0 / 0, and is the     *)
(* number 0 after an addAnalysis, removeAnalysis or updateAnalysis that    *)
(* leaves no record with a confidence greater than 0.                      *)
C8_AverageIsANumber ==
  /\ statistics.averageConfidence # NaN
  /\ (lastOp.op \in {"addAnalysis", "removeAnalysis", "updateAnalysis"}
      /\ PositiveConfidences = <<>>)
       => statistics.averageConfidence = Zero

(* C9: in every reachable state the records of analysisHistory have        *)
(* pairwise distinct ids, whatever payloads addAnalysis was given.         *)
C9_IdsAreDistinct ==
  \A i, j \in Indices :
    i # j => analysisHistory[i].id # analysisHistory[j].id

(* C10: updateAnalysis never changes the id or the timestamp of the record *)
(* it updates: after the call the record at the same position has the same *)
(* id and the same timestamp.                                              *)
C10_UpdateKeepsIdAndTimestamp ==
  [][UpdatedFound' =>
       /\ Len(analysisHistory') = Len(analysisHistory)
       /\ \A i \in Indices :
            /\ analysisHistory'[i].id = analysisHistory[i].id
            /\ analysisHistory'[i].timestamp = analysisHistory[i].timestamp
    ]_vars

(* C11: analysisHistory is in reverse insertion order.  addAnalysis puts   *)
(* the new record at index 0, removeAnalysis keeps the other records in    *)
(* their order, updateAnalysis keeps every record at its position, so that *)
(* of two records the one inserted later is at the smaller index; and      *)
(* getRecentAnalyses(limit) returns the limit most recently inserted       *)
(* records, the most recent first.  (Two records can carry the same        *)
(* timestamp: the order of insertion is read off ordinals.)                *)
LaterInsertedFirst(ords) ==
  \A i, j \in 1..Len(ords) : i < j => ords[i] > ords[j]

RecordsOf(history) == {history[i] : i \in 1..Len(history)}

(* the records of after and their ordinals are records of before with      *)
(* their ordinals, in the order they have in before                        *)
InTheOrderOf(after, ordsAfter, before, ordsBefore) ==
  \E at \in [1..Len(after) -> 1..Len(before)] :
    /\ \A i, j \in 1..Len(after) : i < j => at[i] < at[j]
    /\ \A i \in 1..Len(after) :
         /\ after[i] = before[at[i]]
         /\ ordsAfter[i] = ordsBefore[at[i]]

(* the position of the record inserted as the rank-th latest *)
PositionOfRank(ords, rank) ==
  CHOOSE i \in 1..Len(ords) :
    Cardinality({j \in 1..Len(ords) : ords[j] >= ords[i]}) = rank

MostRecent(result, limit, history, ords) ==
  /\ Len(result) = IF limit < Len(history) THEN limit ELSE Len(history)
  /\ \A rank \in 1..Len(result) :
       result[rank] = history[PositionOfRank(ords, rank)]

C11_ReverseInsertionOrder ==
  [][/\ Len(ordinals') = Len(analysisHistory')
     /\ LaterInsertedFirst(ordinals')
     /\ lastOp'.op = "addAnalysis" =>
          /\ analysisHistory' = <<analysisHistory'[1]>> \o analysisHistory
          /\ ordinals' = <<adds'>> \o ordinals
     /\ RemovedFound' =>
          /\ Len(analysisHistory') < Len(analysisHistory)
          /\ \A a \in RecordsOf(analysisHistory) :
               a.id # lastOp'.id => a \in RecordsOf(analysisHistory')
          /\ InTheOrderOf(analysisHistory', ordinals', analysisHistory, ordinals)
     /\ UpdatedFound' =>
          /\ Len(analysisHistory') = Len(analysisHistory)
          /\ ordinals' = ordinals
          /\ \A i \in Indices :
               i # FindIndex(analysisHistory, lastOp'.id)
                 => analysisHistory'[i] = analysisHistory[i]
     /\ lastOp'.op = "getRecentAnalyses" =>
          MostRecent(lastOp'.result, lastOp'.limit, analysisHistory, ordinals)
    ]_vars

(* the second of three records inserted in the same millisecond was        *)
(* removed: the third is before the first                                  *)
C11_Witness ==
  /\ RemovedFound
  /\ Len(analysisHistory) = 2
  /\ ordinals = <<3, 1>>
  /\ analysisHistory[1] # analysisHistory[2]
  /\ analysisHistory[1].timestamp = analysisHistory[2].timestamp

(* C12: updateAnalysis on a record of the history leaves                   *)
(* statistics.totalAnalyses, statistics.violationsDetected and             *)
(* statistics.analysisTypes unchanged whatever the updates are, and leaves *)
(* the whole of statistics unchanged when the updates carry no confidence  *)
(* or the confidence the record already had (the record's confidence is    *)
(* then the same after the call as before).                                *)
SameConfidence(a, b) ==
  /\ Has(a, "confidence") = Has(b, "confidence")
  /\ Has(a, "confidence") => a.confidence = b.confidence

C12_UpdateKeepsCounters ==
  [][UpdatedFound' =>
       LET i == FindIndex(analysisHistory, lastOp'.id) IN
       /\ statistics'.totalAnalyses = statistics.totalAnalyses
       /\ statistics'.violationsDetected = statistics.violationsDetected
       /\ statistics'.analysisTypes = statistics.analysisTypes
       /\ SameConfidence(analysisHistory[i], analysisHistory'[i])
            => statistics' = statistics
    ]_vars

(* the record of the last update has a type and a violation that only an   *)
(* update gives, and the statistics still count neither                    *)
C12_Witness ==
  /\ UpdatedFound
  /\ \E i \in Indices :
       /\ analysisHistory[i].id = lastOp.id
       /\ Has(analysisHistory[i], "type")
       /\ analysisHistory[i].type = "image"
       /\ ViolationsLength(analysisHistory[i]) = 1
       /\ ConfidenceOrZero(analysisHistory[i]) = 2
  /\ CountOrZero(statistics.analysisTypes, "image") = Number(0)
  /\ statistics.violationsDetected = 0

(* C13: clearHistory, from any state, makes analysisHistory empty,         *)
(* statistics {totalAnalyses: 0, violationsDetected: 0,                    *)
(* averageConfidence: 0, analysisTypes: {}} and selectedAnalysis null, and *)
(* leaves filters, isLoading and error unchanged.                          *)
C13_ClearHistoryResets ==
  [][lastOp'.op = "clearHistory" =>
       /\ analysisHistory' = <<>>
       /\ statistics'.totalAnalyses = 0
       /\ statistics'.violationsDetected = 0
       /\ statistics'.averageConfidence = Zero
       /\ DOMAIN statistics'.analysisTypes = {}
       /\ DOMAIN statistics' =
            {"totalAnalyses", "violationsDetected", "averageConfidence",
             "analysisTypes"}
       /\ selectedAnalysis' = Null
       /\ UNCHANGED <<filters, isLoading, error>>
    ]_vars

(* the history was cleared after records had been added, with the filters  *)
(* and the flags away from their defaults                                  *)
C13_Witness ==
  /\ lastOp.op = "clearHistory"
  /\ adds = FewAdds
  /\ analysisHistory = <<>>
  /\ selectedAnalysis = Null
  /\ filters # InitialFilters
  /\ isLoading
  /\ error # NoError

(* C14: getFilteredHistory returns exactly the records of analysisHistory, *)
(* each once and none added, that satisfy all the active filters: a        *)
(* timestamp >= dateFrom when dateFrom is set and <= dateTo when dateTo is *)
(* set, both bounds inclusive and a record whose timestamp is missing or   *)
(* cannot be parsed excluded when a bound is set; and, when violationType  *)
(* is not 'all', at least one violation of that type.                      *)
Satisfies(a, f) ==
  /\ f.dateFrom # NoDate =>
       (a.timestamp # Unparseable /\ a.timestamp >= f.dateFrom)
  /\ f.dateTo # NoDate =>
       (a.timestamp # Unparseable /\ a.timestamp <= f.dateTo)
  /\ f.violationType # "all" =>
       \E i \in 1..ViolationsLength(a) : a.violations[i].type = f.violationType

(* result holds the records of history that satisfy f, each as often as    *)
(* history does                                                            *)
ExactlyTheSatisfying(result, history, f) ==
  \A a \in RecordsOf(history) \cup RecordsOf(result) :
    Cardinality({i \in 1..Len(result) : result[i] = a}) =
      IF Satisfies(a, f)
      THEN Cardinality({i \in 1..Len(history) : history[i] = a})
      ELSE 0

C14_FilteredHistoryIsExact ==
  lastOp.op = "getFilteredHistory" =>
    ExactlyTheSatisfying(lastOp.result, analysisHistory, filters)

(* both date bounds at the timestamp of the one record returned, the       *)
(* violation type set, and a record that cannot be parsed left out         *)
C14_Witness ==
  /\ lastOp.op = "getFilteredHistory"
  /\ filters.dateFrom = 2
  /\ filters.dateTo = 2
  /\ filters.violationType = "spam"
  /\ Len(analysisHistory) = 2
  /\ analysisHistory[1].timestamp = 2
  /\ analysisHistory[2].timestamp = Unparseable
  /\ lastOp.result = <<analysisHistory[1]>>

(* C15: what getFilteredHistory returns is ordered by the configured key:  *)
(* the confidence (0 when absent) for 'confidence', the status (the empty  *)
(* string when absent) for 'status', the timestamp for 'date' and for any  *)
(* other sortBy; non-decreasing when sortOrder is 'asc', non-increasing    *)
(* when it is 'desc'.  For the history of the two records {id 1, T1, 0.9,  *)
(* 'pass'} and {id 2, T2, 0.4, 'fail'}, T1 < T2, it returns [1, 2] for     *)
(* date/asc, [1, 2] for confidence/desc and [2, 1] for status/asc.  (A     *)
(* timestamp that cannot be parsed gives its record no key: the records    *)
(* that have one are to be in the order of their keys.)                    *)
SortKey(a, f) ==
  CASE f.sortBy = "confidence" -> ConfidenceOrZero(a)
    [] f.sortBy = "status" -> StatusRank(StatusOrEmpty(a))
    [] OTHER -> a.timestamp

(* the key of a is a number or a string: it is not the time of a timestamp *)
(* that cannot be parsed                                                   *)
HasKey(a, f) ==
  f.sortBy \in {"confidence", "status"} \/ a.timestamp # Unparseable

(* the records that have a key are in the order of their keys *)
OrderedByKey(result, f) ==
  \A i, j \in 1..Len(result) :
    (i < j /\ HasKey(result[i], f) /\ HasKey(result[j], f))
      => IF f.sortOrder = "asc"
         THEN SortKey(result[i], f) <= SortKey(result[j], f)
         ELSE SortKey(result[i], f) >= SortKey(result[j], f)

(* the history of the scenario: record 1 was added first; the confidences *)
(* 0.9 and 0.4 are written 90 and 40, which the sort, reading the sign of  *)
(* their difference, orders alike                                          *)
ScenarioHistory ==
  /\ Len(analysisHistory) = 2
  /\ ConfidenceOrZero(analysisHistory[2]) = 90
  /\ StatusOrEmpty(analysisHistory[2]) = "pass"
  /\ ConfidenceOrZero(analysisHistory[1]) = 40
  /\ StatusOrEmpty(analysisHistory[1]) = "fail"
  /\ analysisHistory[2].timestamp < analysisHistory[1].timestamp

(* the records of the scenario by their numbers *)
ScenarioNumbers(s) ==
  [i \in 1..Len(s) |-> IF StatusOrEmpty(s[i]) = "pass" THEN 1 ELSE 2]

ScenarioResult(result, f) ==
  /\ Len(result) = 2
  /\ (f.sortBy = "date" /\ f.sortOrder = "asc")
       => ScenarioNumbers(result) = <<1, 2>>
  /\ (f.sortBy = "confidence" /\ f.sortOrder = "desc")
       => ScenarioNumbers(result) = <<1, 2>>
  /\ (f.sortBy = "status" /\ f.sortOrder = "asc")
       => ScenarioNumbers(result) = <<2, 1>>

C15_FilteredHistoryIsSorted ==
  lastOp.op = "getFilteredHistory" =>
    /\ OrderedByKey(lastOp.result, filters)
    /\ ScenarioHistory => ScenarioResult(lastOp.result, filters)

(* C16: the queries getFilteredHistory, getStatistics, getAnalysisById,    *)
(* getAnalysisByType, getRecentAnalyses and getViolationSummary leave the  *)
(* whole state of the store unchanged; the order of analysisHistory is the *)
(* same after getFilteredHistory as before, under any sortBy and           *)
(* sortOrder.                                                              *)
Queries ==
  {"getFilteredHistory", "getStatistics", "getAnalysisById",
   "getAnalysisByType", "getRecentAnalyses", "getViolationSummary"}

C16_QueriesChangeNothing ==
  [][lastOp'.op \in Queries =>
       /\ analysisHistory' = analysisHistory
       /\ statistics' = statistics
       /\ filters' = filters
       /\ selectedAnalysis' = selectedAnalysis
       /\ isLoading' = isLoading
       /\ error' = error
    ]_vars

(* getFilteredHistory returned the records in another order than the       *)
(* history has them                                                        *)
C16_Witness ==
  /\ lastOp.op = "getFilteredHistory"
  /\ Len(analysisHistory) = 2
  /\ Len(lastOp.result) = 2
  /\ lastOp.result # analysisHistory
  /\ filters.sortBy = "confidence"
  /\ filters.sortOrder = "desc"

(* C17: the snapshot round trip.  From every reachable state, writing the  *)
(* state to the snapshot (name 'analysis-store', version 1), resetting the *)
(* state in memory to its defaults and rehydrating from the snapshot gives *)
(* analysisHistory, statistics, filters and selectedAnalysis their values  *)
(* from before the snapshot was written.                                   *)
C17_SnapshotRoundTrip ==
  [][lastOp'.op = "rehydrate" =>
       /\ analysisHistory' = analysisHistory
       /\ statistics' = statistics
       /\ filters' = filters
       /\ selectedAnalysis' = selectedAnalysis
    ]_vars

(* C18: setFilters(partial) gives every filter key of partial the value    *)
(* partial has for it and leaves the other filter keys unchanged;          *)
(* resetFilters makes filters {dateFrom: null, dateTo: null,               *)
(* violationType: 'all', sortBy: 'date', sortOrder: 'desc'} from any       *)
(* state; both leave analysisHistory, statistics, selectedAnalysis,        *)
(* isLoading and error unchanged.                                          *)
C18_FiltersAreMergedOrReset ==
  [][/\ lastOp'.op = "setFilters" =>
          /\ DOMAIN filters' = DOMAIN filters \cup DOMAIN lastOp'.newFilters
          /\ \A k \in DOMAIN filters' :
               filters'[k] = IF k \in DOMAIN lastOp'.newFilters
                             THEN lastOp'.newFilters[k]
                             ELSE filters[k]
     /\ lastOp'.op = "resetFilters" =>
          /\ DOMAIN filters' =
               {"dateFrom", "dateTo", "violationType", "sortBy", "sortOrder"}
          /\ filters'.dateFrom = NoDate
          /\ filters'.dateTo = NoDate
          /\ filters'.violationType = "all"
          /\ filters'.sortBy = "date"
          /\ filters'.sortOrder = "desc"
     /\ lastOp'.op \in {"setFilters", "resetFilters"} =>
          UNCHANGED <<analysisHistory, statistics, selectedAnalysis,
                      isLoading, error>>
    ]_vars

(* the violation type was set after the sort had been: the sort is kept    *)
C18_Witness ==
  /\ lastOp.op = "setFilters"
  /\ DOMAIN lastOp.newFilters = {"violationType"}
  /\ filters.violationType = "spam"
  /\ filters.sortBy = "confidence"
  /\ filters.sortOrder = "asc"
  /\ analysisHistory # <<>>
  /\ selectedAnalysis # Null
  /\ isLoading
  /\ error # NoError

(* C19: addAnalysis(p) followed at once by removeAnalysis of the id of the *)
(* new record gives analysisHistory, totalAnalyses, violationsDetected and *)
(* analysisTypes (an absent key counting 0) the values they had before the *)
(* add, from any reachable state and for any payload p; averageConfidence  *)
(* too when it was the mean of the positive confidences before the add.    *)
MeanOfPositive(history) ==
  AverageOrZero(SelectSeq([i \in 1..Len(history) |->
                             ConfidenceOrZero(history[i])],
                          LAMBDA c : c > 0))

C19_AddThenRemoveRestores ==
  [][(/\ lastOp.op = "addAnalysis"
      /\ lastOp'.op = "removeAnalysis"
      /\ lastOp'.id = analysisHistory[1].id)
       => LET before == lastOp.before IN
          /\ analysisHistory' = before.analysisHistory
          /\ statistics'.totalAnalyses = before.statistics.totalAnalyses
          /\ statistics'.violationsDetected =
               before.statistics.violationsDetected
          /\ \A t \in Types :
               CountOrZero(statistics'.analysisTypes, t) =
                 CountOrZero(before.statistics.analysisTypes, t)
          /\ before.statistics.averageConfidence =
               MeanOfPositive(before.analysisHistory)
               => statistics'.averageConfidence =
                    before.statistics.averageConfidence
    ]_vars

(* C20: every action builds its new state without modifying the values of *)
(* the state before: a statistics value read before removeAnalysis,        *)
(* addAnalysis or updateAnalysis is called, its analysisTypes mapping      *)
(* included, has the same contents after the call.                         *)
C20_PreviousStatisticsUntouched ==
  [][(\/ lastOp'.op = "addAnalysis"
      \/ RemovedFound'
      \/ UpdatedFound')
       => lastOp'.previousAnalysisTypes = statistics.analysisTypes
    ]_vars

====
